---------------------------- MODULE Spec2Model ----------------------------
(***************************************************************************)
(* A state-machine model of the STUSB4500 driver (src/src/lib.rs).         *)
(*                                                                         *)
(* The driver is a sequential program over a blocking I2C transport.  One  *)
(* step of the model is one statement of the driver that performs          *)
(* transport calls, together with every assignment that follows it up to   *)
(* the next transport call.  The transport and the chip behind it are the  *)
(* environment: every transport call may fail with any transport error,    *)
(* and the chip finishes a requested NVM command at a time of its own      *)
(* choosing (action DeviceComplete).                                       *)
(*                                                                         *)
(* log is the trace of transport calls of the operation in progress, in    *)
(* order.  A poll of nvm_wait that finds the chip busy is counted in       *)
(* polls instead of being appended, so that log stays a function of the    *)
(* control position; every other call, the poll that finds the chip idle   *)
(* and a poll that fails included, is appended.                            *)
(***************************************************************************)
EXTENDS Integers, Sequences, FiniteSets, TLC

(***************************************************************************)
(* Bounds of the model.                                                    *)
(***************************************************************************)
\* nvm_wait's busy polls are counted up to MaxPolls (the counter saturates).
MaxPolls == 3

(***************************************************************************)
(* Constants of registers.rs (not among the source files; values of the    *)
(* chip's register map).                                                   *)
(***************************************************************************)
\* CTRL0CmdMask::REQ, the command-request (busy) bit
CTRL0_REQ == 16
\* CTRL0CmdMask::SECT, the 3-bit sector-select field
CTRL0_SECT == 7
\* CTRL0CmdMask::_Default: power, reset-released and request bits
CTRL0_Default == 208
\* NVMCmd opcodes
NVMCmd_Read == 0
NVMCmd_WritePL == 1
NVMCmd_WriteSER == 2
NVMCmd_EraseSector == 5
NVMCmd_ProgSector == 6
NVMCmd_SoftProgSector == 7

\* The registers the modelled operations address (Register::X as u8 is
\* kept symbolic: the name stands for the address byte).
Register ==
  {"Password", "CTRL0", "CTRL1", "RWBuffer", "DPMPDONumb",
   "DPMSNKPDO1", "DPMSNKPDO2", "DPMSNKPDO3", "AlertStatus1", "TXHeaderL",
   "PDCommandCtrl", "RDORegStatus"}

(***************************************************************************)
(* The PDO codec of pdo.rs (not among the source files): the sink Fixed    *)
(* Supply PDO of the USB-PD wire format.  Bits 31..30 select the shape (0  *)
(* is Fixed), bits 29..20 are the capability flags, bits 19..10 the        *)
(* voltage and bits 9..0 the current, both in device units.                *)
(***************************************************************************)
\* 2^10, 2^20 and 2^30: the places of the voltage, the flags and the
\* type selector; every field but the selector is ten bits wide
PdoVoltagePlace == 1024
PdoFlagsPlace == 1048576
PdoTypePlace == 1073741824
PdoFieldSize == 1024

\* Pdo::bits of a Fixed PDO
PdoBits(p) ==
  p.flags * PdoFlagsPlace + p.voltage * PdoVoltagePlace + p.current

\* Pdo::from_bits: Some(Fixed {..}) as a one-element set for a word whose
\* selector is Fixed, None as the empty set for any other word
PdoFromBits(w) ==
  IF w \div PdoTypePlace # 0 THEN {}
  ELSE {[type |-> "Fixed",
         voltage |-> (w \div PdoVoltagePlace) % PdoFieldSize,
         current |-> w % PdoFieldSize,
         flags |-> (w \div PdoFlagsPlace) % PdoFieldSize]}

\* Alert::from_masked_bits: the bits of the alert register that are alerts
\* (alerts.rs is not among the source files; all eight bits are kept)
AlertBits == 255

(***************************************************************************)
(* Constants of lib.rs.                                                    *)
(***************************************************************************)
STUSB4500_ADDR == 40
\* set_nvm_lock's two passwords
PasswordUnlock == 71
PasswordLock == 0
\* delete_nvm's first CTRL1 value
DeleteSerCmd == 250
\* the number of NVM sectors ([u64; 5], for x in 0..5)
NumSectors == 5

(***************************************************************************)
(* Bit and byte arithmetic.                                                *)
(***************************************************************************)
RECURSIVE BitAnd(_, _)
\* a & b on naturals
BitAnd(a, b) ==
  IF a = 0 \/ b = 0 THEN 0
  ELSE (a % 2) * (b % 2) + 2 * BitAnd(a \div 2, b \div 2)

RECURSIVE BitOr(_, _)
\* a | b on naturals
BitOr(a, b) ==
  IF a = 0 THEN b
  ELSE IF b = 0 THEN a
  ELSE (IF a % 2 = 1 \/ b % 2 = 1 THEN 1 ELSE 0) + 2 * BitOr(a \div 2, b \div 2)

RECURSIVE to_le_bytes(_, _)
\* LittleEndian::write_u32 / write_u64: the n little-endian bytes of v
to_le_bytes(v, n) ==
  IF n = 0 THEN <<>> ELSE <<v % 256>> \o to_le_bytes(v \div 256, n - 1)

RECURSIVE from_le_bytes(_)
\* LittleEndian::read_u32 / read_u64: the value of little-endian bytes
from_le_bytes(bytes) ==
  IF bytes = <<>> THEN 0 ELSE Head(bytes) + 256 * from_le_bytes(Tail(bytes))


(***************************************************************************)
(* Inputs the model draws from.                                            *)
(***************************************************************************)
\* The errors the transport can answer a call with (the type parameter E).
TransportErrors == {"Nack", "ArbitrationLoss"}

\* The outcomes of one transport call.
Outcomes == {"ok"} \cup TransportErrors

Sectors == 0 .. (NumSectors - 1)

\* NVM images ([u64; 5]) given to write_nvm: all sectors different with
\* several non-zero bytes, a repeated value, and small values.
Images ==
  { [i \in Sectors |-> 66051 + 1000 * i],
    [i \in Sectors |-> IF i % 2 = 0 THEN 513 ELSE 43605],
    [i \in Sectors |-> 4 - i] }

\* 40-byte NVM images ([u8; 40]) given to write_nvm_bytes; the upper four
\* bytes of each group of eight are 0 (words are kept below 2^31).
ByteImages ==
  { [k \in 1 .. 8 * NumSectors |-> IF (k - 1) % 8 < 3 THEN k ELSE 0],
    [k \in 1 .. 8 * NumSectors |-> IF (k - 1) % 8 = 1 THEN 7 ELSE 0] }

\* NVM contents of the chip before the driver is used.
InitialNvm ==
  { [i \in Sectors |-> 0],
    [i \in Sectors |-> 255 + i] }

\* Arguments of set_num_pdo: every u8, and the values around the bounds of
\* the valid range that the operation is called with between NVM operations.
NumPdoInputs == 0 .. 255

NumPdoBoundary == {0, 1, 2, 3, 4, 255}

PdoChannel == {"PDO1", "PDO2", "PDO3"}

\* Arguments of set_pdo: the variant of the Pdo enum and its fields.  The
\* Fixed ones are 5 V / 3 A without flags and every field at its maximum.
PdoInputs ==
  { [type |-> "Fixed", voltage |-> 100, current |-> 300, flags |-> 0],
    [type |-> "Fixed", voltage |-> 1023, current |-> 1023, flags |-> 1023],
    [type |-> "Variable", voltage |-> 77, current |-> 0, flags |-> 0],
    [type |-> "Battery", voltage |-> 78, current |-> 0, flags |-> 0] }

\* Values of the chip's alert register.
AlertInputs == {0, 130}

\* Arguments of new().
AddressInputs ==
  { [kind |-> "Default", a1 |-> FALSE, a0 |-> FALSE, custom |-> 0],
    [kind |-> "Strap", a1 |-> TRUE, a0 |-> FALSE, custom |-> 0] }

\* Arguments of new() of every kind: the default, the four strap-pin
\* combinations, and custom values at the ends and in the middle of u8.
AllAddressInputs ==
  {[kind |-> "Default", a1 |-> FALSE, a0 |-> FALSE, custom |-> 0]}
    \cup {[kind |-> "Strap", a1 |-> p1, a0 |-> p0, custom |-> 0] :
            p1, p0 \in BOOLEAN}
    \cup {[kind |-> "Custom", a1 |-> FALSE, a0 |-> FALSE, custom |-> v] :
            v \in {0, 40, 127, 128, 255}}

(***************************************************************************)
(* State.                                                                  *)
(***************************************************************************)
VARIABLES
  address,  \* STUSB4500.address
  dev,      \* the chip behind the transport: its NVM registers and sectors
  op,       \* the public operation called last ("none" before the first)
  wrapper,  \* the byte-array operation that called op ("none": op itself
            \* is what the caller called)
  nvmBytes, \* write_nvm_bytes's argument
  data,     \* write_nvm's argument
  num,      \* set_num_pdo's argument
  chan,     \* set_pdo's channel argument
  pdo,      \* set_pdo's Pdo argument
  pc,       \* the function the driver is in: "idle", a helper, or "done"
  caller,   \* in nvm_wait: the helper that called it
  step,     \* the position in the helper: the index of its next statement
  lock,     \* set_nvm_lock's argument
  x,        \* the loop variable of get_nvm / write_nvm
  buf,      \* get_nvm's buf
  result,   \* what the operation returned (kind "none" while it runs)
  log,      \* the transport calls of the operation, busy polls left out
  polls,    \* nvm_wait: the busy polls of the wait in progress
  written,  \* the operation ("write_nvm" or "write_nvm_bytes") whose call
            \* wrote the NVM last, if it returned Ok; "none" otherwise
  regs,     \* the chip's PDO slot, alert and RDO registers, as bytes
  bus       \* the device addresses the transport calls made so far carried

vars ==
  <<address, dev, op, wrapper, nvmBytes, data, num, chan, pdo, pc, caller,
    step, lock, x, buf, result, log, polls, written, regs, bus>>

args == <<wrapper, nvmBytes, data, num, chan, pdo>>

(***************************************************************************)
(* Address::addr and the results of operations.                            *)
(***************************************************************************)
\* Address::addr
addr(a) ==
  CASE a.kind = "Default" -> STUSB4500_ADDR
    [] a.kind = "Strap" ->
         BitOr(BitOr(STUSB4500_ADDR, (IF a.a1 THEN 1 ELSE 0) * 2),
               IF a.a0 THEN 1 ELSE 0)
    [] OTHER -> a.custom

None == [kind |-> "none", val |-> "none"]
Ok(v) == [kind |-> "Ok", val |-> v]
\* Error::I2CError(err), Error::InvalidPdo, Error::OutaRangePdo
I2CError(e) == [kind |-> "I2CError", val |-> e]
InvalidPdo == [kind |-> "InvalidPdo", val |-> "none"]
OutaRangePdo == [kind |-> "OutaRangePdo", val |-> "none"]

(***************************************************************************)
(* The transport and the chip.                                             *)
(***************************************************************************)
\* WriteCall with the constant STUSB4500_ADDR in place of self.address.
WriteCall_DefaultAddress(bytes, r) ==
  [call |-> "write", addr |-> STUSB4500_ADDR, bytes |-> bytes,
   len |-> Len(bytes), res |-> r]

\* One i2c.write(address, bytes) and one i2c.read(address, buffer) call,
\* as recorded in log; res is "ok" or the transport's error.
WriteCall(bytes, r) ==
  [call |-> "write", addr |-> address, bytes |-> bytes, len |-> Len(bytes),
   res |-> r]

ReadCall(n, bytes, r) ==
  [call |-> "read", addr |-> address, bytes |-> bytes, len |-> n, res |-> r]

\* The addresses seen on the bus once the calls given have been made, the
\* polls that log leaves out included.
OnBus(calls) == bus \cup {calls[i].addr : i \in DOMAIN calls}

\* The chip's reaction to a write that reached it.  A write to CTRL0 with
\* the request bit set starts the command held in CTRL1; the command takes
\* effect when the chip completes it.
DevWrite(d, bytes) ==
  LET reg == bytes[1] IN
  CASE reg = "Password" -> [d EXCEPT !.password = bytes[2]]
    [] reg = "CTRL0" -> [d EXCEPT !.ctrl0 = bytes[2]]
    [] reg = "CTRL1" -> [d EXCEPT !.ctrl1 = bytes[2]]
    [] reg = "RWBuffer" -> [d EXCEPT !.rwbuf = Tail(bytes)]
    [] OTHER -> d

\* The chip has a command in progress.
Busy(d) == BitAnd(d.ctrl0, CTRL0_REQ) # 0

\* The chip as it is after completing the command in progress: the opcode
\* is the low three bits of CTRL1, the sector the sector-select field of
\* CTRL0; the request bit is cleared.
DevComplete(d) ==
  LET opcode == d.ctrl1 % 8
      s == BitAnd(d.ctrl0, CTRL0_SECT)
      idle == [d EXCEPT !.ctrl0 = d.ctrl0 - CTRL0_REQ]
  IN CASE opcode = NVMCmd_Read /\ s \in Sectors ->
            [idle EXCEPT !.rwbuf = d.nvm[s]]
       [] opcode = NVMCmd_WritePL -> [idle EXCEPT !.pl = d.rwbuf]
       [] opcode = NVMCmd_ProgSector /\ s \in Sectors ->
            [idle EXCEPT !.nvm[s] = d.pl]
       [] opcode = NVMCmd_EraseSector ->
            [idle EXCEPT !.nvm = [i \in Sectors |-> to_le_bytes(0, 8)]]
       [] OTHER -> idle

\* The chip's registers outside the NVM block: a write that reached the
\* chip stores the bytes after the register byte; the alert register is
\* cleared by being read.
RegsWrite(g, bytes) ==
  IF bytes[1] \in DOMAIN g /\ Len(bytes) = Len(g[bytes[1]]) + 1
    THEN [g EXCEPT ![bytes[1]] = Tail(bytes)]
    ELSE g

RegsRead(g, register) ==
  IF register = "AlertStatus1" THEN [g EXCEPT ![register] = <<0>>] ELSE g

(***************************************************************************)
(* Raw access functions: the bytes of the one transport write each makes.  *)
(***************************************************************************)
\* write: buf = [register as u8, value]
write(register, value) == <<register, value>>

\* write_word: buf[0] = register, then the word's four little-endian bytes
write_word(register, word) == <<register>> \o to_le_bytes(word, 4)

\* write_double_word: buf[0] = register, then eight little-endian bytes
write_double_word(register, word) == <<register>> \o to_le_bytes(word, 8)

\* ReadCalls with the data read issued whatever the address write returned.
ReadCalls_ReadAfterFailedWrite(register, n, r1, r2, got) ==
  <<WriteCall(<<register>>, r1),
    ReadCall(n, IF r2 = "ok" THEN got ELSE <<>>, r2)>>

\* The calls of a read primitive of n bytes from register whose address
\* write ended r1 and whose data read (made only after an address write
\* that succeeded) ended r2 with the bytes got.
ReadCalls(register, n, r1, r2, got) ==
  IF r1 # "ok" THEN <<WriteCall(<<register>>, r1)>>
  ELSE <<WriteCall(<<register>>, "ok"),
         ReadCall(n, IF r2 = "ok" THEN got ELSE <<>>, r2)>>

\* The error a read primitive returns, "ok" when both calls succeeded.
ReadError(r1, r2) == IF r1 # "ok" THEN r1 ELSE r2

(***************************************************************************)
(* The conversions of the byte-array operations.                           *)
(***************************************************************************)
\* The bytes of a sequence in the opposite order.
Reversed(b) == [k \in DOMAIN b |-> b[Len(b) + 1 - k]]

\* NvmToBytes with every sector written most significant byte first.
NvmToBytes_BigEndian(d) ==
  Reversed(to_le_bytes(d[0], 8)) \o Reversed(to_le_bytes(d[1], 8))
    \o Reversed(to_le_bytes(d[2], 8)) \o Reversed(to_le_bytes(d[3], 8))
    \o Reversed(to_le_bytes(d[4], 8))

\* get_nvm_bytes: buf[x * 8..(x * 8) + 8] = data[x].to_le_bytes(), x in 0..5
NvmToBytes(d) ==
  to_le_bytes(d[0], 8) \o to_le_bytes(d[1], 8) \o to_le_bytes(d[2], 8)
    \o to_le_bytes(d[3], 8) \o to_le_bytes(d[4], 8)

\* write_nvm_bytes: buf[x] = u64::from_le_bytes(data[x * 8..(x * 8) + 8])
BytesToNvm(b) ==
  [i \in Sectors |-> from_le_bytes(SubSeq(b, i * 8 + 1, i * 8 + 8))]

(***************************************************************************)
(* Control: where the driver continues.                                    *)
(***************************************************************************)
\* Continue in helper p at statement s, with loop variable i and buffer b.
Goto(p, s, l, i, b) ==
  /\ pc' = p
  /\ step' = s
  /\ lock' = l
  /\ x' = i
  /\ buf' = b
  /\ caller' = caller
  /\ polls' = 0
  /\ result' = None
  /\ written' = written

\* The helper at pc calls nvm_wait after its statement step.
EnterWait ==
  /\ pc' = "nvm_wait"
  /\ caller' = pc
  /\ polls' = 0
  /\ result' = None
  /\ UNCHANGED <<step, lock, x, buf, written>>

\* The public operation returns r.
Return(r) ==
  /\ pc' = "done"
  /\ result' = r
  /\ polls' = 0
  /\ written' = IF op # "write_nvm" THEN written
                ELSE IF r.kind # "Ok" THEN "none"
                ELSE IF wrapper = "none" THEN "write_nvm"
                ELSE wrapper
  /\ UNCHANGED <<caller, step, lock, x, buf>>

\* get_nvm / write_nvm after set_nvm_lock(l) returned Ok: after the unlock
\* write_nvm goes on to delete_nvm and get_nvm to its first sector; after
\* the lock the operation returns Ok.
AfterSetNvmLock ==
  IF lock
    THEN Return(Ok(IF op = "write_nvm" THEN "unit"
                   ELSE IF wrapper = "get_nvm_bytes" THEN NvmToBytes(buf)
                   ELSE buf))
    ELSE IF op = "write_nvm"
      THEN Goto("delete_nvm", 1, lock, x, buf)
      ELSE Goto("read_nvm_sector", 1, lock, 0, buf)

\* AfterWriteNvmSector with the final set_nvm_lock(true) left out.
AfterWriteNvmSector_NoLock ==
  IF x + 1 < NumSectors
    THEN Goto("write_nvm_sector", 1, lock, x + 1, buf)
    ELSE Return(Ok("unit"))

\* AfterWriteNvmSector with the loop stepping by two.
AfterWriteNvmSector_SkipsSector ==
  IF x + 2 < NumSectors
    THEN Goto("write_nvm_sector", 1, lock, x + 2, buf)
    ELSE Goto("set_nvm_lock", 1, TRUE, x, buf)

\* write_nvm after write_nvm_sector(x, data[x]) returned Ok: the next
\* sector, or set_nvm_lock(true) after the last.
AfterWriteNvmSector ==
  IF x + 1 < NumSectors
    THEN Goto("write_nvm_sector", 1, lock, x + 1, buf)
    ELSE Goto("set_nvm_lock", 1, TRUE, x, buf)

\* AfterReadNvmSector with every value stored in buf[0].
AfterReadNvmSector_FirstElement(value) ==
  IF x + 1 < NumSectors
    THEN Goto("read_nvm_sector", 1, lock, x + 1, [buf EXCEPT ![0] = value])
    ELSE Goto("set_nvm_lock", 1, TRUE, x, [buf EXCEPT ![0] = value])

\* get_nvm after read_nvm_sector(x) returned Ok(value): buf[x] = value, then
\* the next sector, or set_nvm_lock(true) after the last.
AfterReadNvmSector(value) ==
  IF x + 1 < NumSectors
    THEN Goto("read_nvm_sector", 1, lock, x + 1, [buf EXCEPT ![x] = value])
    ELSE Goto("set_nvm_lock", 1, TRUE, x, [buf EXCEPT ![x] = value])

\* The caller of nvm_wait after it returned Ok.
AfterWait ==
  CASE caller = "set_nvm_lock" -> AfterSetNvmLock
    [] caller = "delete_nvm" ->
         IF step = 6
           THEN Goto("write_nvm_sector", 1, lock, 0, buf)
           ELSE Goto("delete_nvm", step + 1, lock, x, buf)
    [] caller = "write_nvm_sector" ->
         IF step = 5
           THEN AfterWriteNvmSector
           ELSE Goto("write_nvm_sector", step + 1, lock, x, buf)
    [] caller = "read_nvm_sector" ->
         Goto("read_nvm_sector", step + 1, lock, x, buf)

(***************************************************************************)
(* The register writes of the NVM helpers, by statement.                   *)
(***************************************************************************)
\* set_nvm_lock(l): the password write
SetNvmLockWrite(l) ==
  IF l THEN write("Password", PasswordLock)
       ELSE write("Password", PasswordUnlock)

\* DeleteNvmWrite with Erase-Sector issued before Soft-Program-Sector.
DeleteNvmWrite_EraseFirst(s) ==
  CASE s = 1 -> write("CTRL1", DeleteSerCmd)
    [] s = 2 -> write("CTRL0", CTRL0_Default)
    [] s = 3 -> write("CTRL1", NVMCmd_EraseSector)
    [] s = 4 -> write("CTRL0", CTRL0_Default)
    [] s = 5 -> write("CTRL1", NVMCmd_SoftProgSector)
    [] s = 6 -> write("CTRL0", CTRL0_Default)

\* delete_nvm: its six writes; nvm_wait follows the 2nd, 4th and 6th
DeleteNvmWrite(s) ==
  CASE s = 1 -> write("CTRL1", DeleteSerCmd)
    [] s = 2 -> write("CTRL0", CTRL0_Default)
    [] s = 3 -> write("CTRL1", NVMCmd_SoftProgSector)
    [] s = 4 -> write("CTRL0", CTRL0_Default)
    [] s = 5 -> write("CTRL1", NVMCmd_EraseSector)
    [] s = 6 -> write("CTRL0", CTRL0_Default)

\* WriteNvmSectorWrite with the sector-select bits left out of the
\* Program-Sector trigger.
WriteNvmSectorWrite_NoSector(s, sector, word) ==
  CASE s = 1 -> write_double_word("RWBuffer", word)
    [] s = 2 -> write("CTRL1", NVMCmd_WritePL)
    [] s = 3 -> write("CTRL0", CTRL0_Default)
    [] s = 4 -> write("CTRL1", NVMCmd_ProgSector)
    [] s = 5 -> write("CTRL0", CTRL0_Default)

\* write_nvm_sector(sector, word): its five writes; nvm_wait follows the
\* 3rd and the 5th
WriteNvmSectorWrite(s, sector, word) ==
  CASE s = 1 -> write_double_word("RWBuffer", word)
    [] s = 2 -> write("CTRL1", NVMCmd_WritePL)
    [] s = 3 -> write("CTRL0", CTRL0_Default)
    [] s = 4 -> write("CTRL1", NVMCmd_ProgSector)
    [] s = 5 ->
         write("CTRL0", BitOr(CTRL0_Default, BitAnd(sector, CTRL0_SECT)))

\* read_nvm_sector(sector): its two writes; nvm_wait follows the 2nd
ReadNvmSectorWrite(s, sector) ==
  CASE s = 1 -> write("CTRL1", NVMCmd_Read)
    [] s = 2 ->
         write("CTRL0", BitOr(CTRL0_Default, BitAnd(sector, CTRL0_SECT)))

\* WriteStatement with the result of the write dropped instead of
\* propagated with the ? operator.
WriteStatement_IgnoreError(bytes, wait, R) ==
  \E r \in R :
    /\ log' = Append(log, WriteCall(bytes, r))
    /\ bus' = OnBus(<<WriteCall(bytes, r)>>)
    /\ dev' = IF r = "ok" THEN DevWrite(dev, bytes) ELSE dev
    /\ IF wait THEN EnterWait ELSE Goto(pc, step + 1, lock, x, buf)
    /\ UNCHANGED <<address, regs, op, args>>

\* One register write of a helper: the transport call is made and logged;
\* if it fails the operation returns the error (the ? operator), otherwise
\* the helper calls nvm_wait (wait) or goes on to its next statement.
WriteStatement(bytes, wait, R) ==
  \E r \in R :
    /\ log' = Append(log, WriteCall(bytes, r))
    /\ bus' = OnBus(<<WriteCall(bytes, r)>>)
    /\ IF r = "ok"
         THEN /\ dev' = DevWrite(dev, bytes)
              /\ IF wait THEN EnterWait
                         ELSE Goto(pc, step + 1, lock, x, buf)
         ELSE /\ dev' = dev
              /\ Return(I2CError(r))
    /\ UNCHANGED <<address, regs, op, args>>

(***************************************************************************)
(* The NVM helpers; R is the set of outcomes the transport may give.       *)
(***************************************************************************)
\* set_nvm_lock: self.write(Register::Password, ..)?; self.nvm_wait()
set_nvm_lock(R) ==
  /\ pc = "set_nvm_lock"
  /\ WriteStatement(SetNvmLockWrite(lock), TRUE, R)

\* nvm_wait with the test inverted: it returns while the request bit is set.
nvm_wait_ReturnsWhenBusy(R) ==
  /\ pc = "nvm_wait"
  /\ \E r1, r2 \in R :
       LET value == dev.ctrl0
           calls == ReadCalls("CTRL0", 1, r1, r2, <<value>>)
           err == ReadError(r1, r2)
       IN /\ bus' = OnBus(calls)
          /\ IF err # "ok"
            THEN /\ log' = log \o calls
                 /\ Return(I2CError(err))
            ELSE IF BitAnd(value, CTRL0_REQ) # 0
              THEN /\ log' = log \o calls
                   /\ AfterWait
              ELSE /\ log' = log
                   /\ polls' = IF polls < MaxPolls THEN polls + 1 ELSE polls
                   /\ UNCHANGED <<pc, caller, step, lock, x, buf, result,
                                  written>>
  /\ UNCHANGED <<address, dev, regs, op, args>>

\* nvm_wait testing the sector-select bits instead of the request bit.
nvm_wait_WrongMask(R) ==
  /\ pc = "nvm_wait"
  /\ \E r1, r2 \in R :
       LET value == dev.ctrl0
           calls == ReadCalls("CTRL0", 1, r1, r2, <<value>>)
           err == ReadError(r1, r2)
       IN /\ bus' = OnBus(calls)
          /\ IF err # "ok"
            THEN /\ log' = log \o calls
                 /\ Return(I2CError(err))
            ELSE IF BitAnd(value, CTRL0_SECT) = 0
              THEN /\ log' = log \o calls
                   /\ AfterWait
              ELSE /\ log' = log
                   /\ polls' = IF polls < MaxPolls THEN polls + 1 ELSE polls
                   /\ UNCHANGED <<pc, caller, step, lock, x, buf, result,
                                  written>>
  /\ UNCHANGED <<address, dev, regs, op, args>>

\* nvm_wait: one iteration of the loop, a read of CTRL0.  A failed call
\* returns the error; a value with the request bit clear returns Ok to the
\* caller; otherwise the loop goes round.
nvm_wait(R) ==
  /\ pc = "nvm_wait"
  /\ \E r1, r2 \in R :
       LET value == dev.ctrl0
           calls == ReadCalls("CTRL0", 1, r1, r2, <<value>>)
           err == ReadError(r1, r2)
       IN /\ bus' = OnBus(calls)
          /\ IF err # "ok"
            THEN /\ log' = log \o calls
                 /\ Return(I2CError(err))
            ELSE IF BitAnd(value, CTRL0_REQ) = 0
              THEN /\ log' = log \o calls
                   /\ AfterWait
              ELSE /\ log' = log
                   /\ polls' = IF polls < MaxPolls THEN polls + 1 ELSE polls
                   /\ UNCHANGED <<pc, caller, step, lock, x, buf, result,
                                  written>>
  /\ UNCHANGED <<address, dev, regs, op, args>>

\* delete_nvm
delete_nvm(R) ==
  /\ pc = "delete_nvm"
  /\ WriteStatement(DeleteNvmWrite(step), step \in {2, 4, 6}, R)

\* write_nvm_sector called with data[0] for every sector.
write_nvm_sector_FirstWord(R) ==
  /\ pc = "write_nvm_sector"
  /\ WriteStatement(WriteNvmSectorWrite(step, x, data[0]), step \in {3, 5}, R)

\* write_nvm_sector without the nvm_wait after the Write-Program-Load
\* trigger.
write_nvm_sector_NoWaitAfterLoad(R) ==
  /\ pc = "write_nvm_sector"
  /\ WriteStatement(WriteNvmSectorWrite(step, x, data[x]), step = 5, R)

\* write_nvm_sector(x as u8, data[x])
write_nvm_sector(R) ==
  /\ pc = "write_nvm_sector"
  /\ WriteStatement(WriteNvmSectorWrite(step, x, data[x]), step \in {3, 5}, R)

\* read_nvm_sector(x as u8): the two writes, then (after nvm_wait)
\* self.read_double_word(Register::RWBuffer), whose value get_nvm stores
read_nvm_sector(R) ==
  /\ pc = "read_nvm_sector"
  /\ IF step < 3
       THEN WriteStatement(ReadNvmSectorWrite(step, x), step = 2, R)
       ELSE /\ \E r1, r2 \in R :
                 LET got == dev.rwbuf
                     err == ReadError(r1, r2)
                 IN /\ log' = log \o ReadCalls("RWBuffer", 8, r1, r2, got)
                    /\ bus' = OnBus(ReadCalls("RWBuffer", 8, r1, r2, got))
                    /\ IF err # "ok"
                         THEN Return(I2CError(err))
                         ELSE AfterReadNvmSector(from_le_bytes(got))
            /\ UNCHANGED <<address, dev, regs, op, args>>

(***************************************************************************)
(* The public operations.                                                  *)
(***************************************************************************)
ZeroImage == [i \in Sectors |-> 0]

\* A public operation o is called with the arguments given: the driver is
\* between operations (the trace of the call starts empty).
Call(o, w, b, d, n, c, p) ==
  /\ pc \in {"idle", "done"}
  /\ op' = o
  /\ wrapper' = w
  /\ nvmBytes' = b
  /\ data' = d
  /\ num' = n
  /\ chan' = c
  /\ pdo' = p
  /\ UNCHANGED <<address, dev>>

ZeroBytes == [k \in 1 .. 8 * NumSectors |-> 0]

NoPdo == [type |-> "Fixed", voltage |-> 0, current |-> 0, flags |-> 0]

\* get_nvm, called by the caller (w = "none") or by get_nvm_bytes:
\* let mut buf = [0x00; 5]; self.set_nvm_lock(false)?; ...
GetNvmCalled(w) ==
  /\ Call("get_nvm", w, nvmBytes, data, 0, "PDO1", NoPdo)
  /\ Goto("set_nvm_lock", 1, FALSE, 0, ZeroImage)
  /\ log' = <<>>
  /\ UNCHANGED <<regs, bus>>

get_nvm == GetNvmCalled("none")

\* get_nvm_bytes: let data = self.get_nvm()?; the conversion is made when
\* get_nvm returns Ok
get_nvm_bytes == GetNvmCalled("get_nvm_bytes")

\* write_nvm(d), called by the caller (w = "none", b the bytes last given
\* to write_nvm_bytes) or by write_nvm_bytes(b):
\* self.set_nvm_lock(false)?; ...
WriteNvmCalled(w, b, d) ==
  /\ Call("write_nvm", w, b, d, 0, "PDO1", NoPdo)
  /\ pc' = "set_nvm_lock"
  /\ step' = 1
  /\ lock' = FALSE
  /\ x' = 0
  /\ buf' = ZeroImage
  /\ polls' = 0
  /\ result' = None
  /\ written' = "none"
  /\ log' = <<>>
  /\ UNCHANGED <<caller, regs, bus>>

write_nvm(d) == WriteNvmCalled("none", ZeroBytes, d)

\* write_nvm_bytes(b): the five words are taken from b; self.write_nvm(buf)
write_nvm_bytes(b) == WriteNvmCalled("write_nvm_bytes", b, BytesToNvm(b))

\* An operation that makes no call of a helper returns r at once.
ReturnAtOnce(r) ==
  /\ pc' = "done"
  /\ result' = r
  /\ step' = 1
  /\ lock' = FALSE
  /\ x' = 0
  /\ buf' = ZeroImage
  /\ polls' = 0
  /\ UNCHANGED <<caller, written>>

\* set_num_pdo with the range 1..=3 taken as 0..=3.
set_num_pdo_FromZero(n, R) ==
  /\ Call("set_num_pdo", "none", nvmBytes, data, n, "PDO1", NoPdo)
  /\ IF n \in 0 .. 3
       THEN \E r \in R :
              /\ log' = <<WriteCall(write("DPMPDONumb", n), r)>>
              /\ bus' = OnBus(<<WriteCall(write("DPMPDONumb", n), r)>>)
              /\ ReturnAtOnce(IF r = "ok" THEN Ok("unit") ELSE I2CError(r))
       ELSE log' = <<>> /\ bus' = bus /\ ReturnAtOnce(OutaRangePdo)
  /\ regs' = regs

\* set_num_pdo(n): 1..=3 => self.write(Register::DPMPDONumb, num),
\* _ => Err(Error::OutaRangePdo)
set_num_pdo(n, R) ==
  /\ Call("set_num_pdo", "none", nvmBytes, data, n, "PDO1", NoPdo)
  /\ IF n \in 1 .. 3
       THEN \E r \in R :
              /\ log' = <<WriteCall(write("DPMPDONumb", n), r)>>
              /\ bus' = OnBus(<<WriteCall(write("DPMPDONumb", n), r)>>)
              /\ ReturnAtOnce(IF r = "ok" THEN Ok("unit") ELSE I2CError(r))
       ELSE log' = <<>> /\ bus' = bus /\ ReturnAtOnce(OutaRangePdo)
  /\ regs' = regs

\* PdoRegister with PDO3 mapped to the slot of PDO2.
PdoRegister_Pdo3AsPdo2(c) ==
  CASE c = "PDO1" -> "DPMSNKPDO1"
    [] c = "PDO2" -> "DPMSNKPDO2"
    [] c = "PDO3" -> "DPMSNKPDO2"

\* The slot register of a channel (the match of set_pdo and get_pdo).
PdoRegister(c) ==
  CASE c = "PDO1" -> "DPMSNKPDO1"
    [] c = "PDO2" -> "DPMSNKPDO2"
    [] c = "PDO3" -> "DPMSNKPDO3"

\* set_pdo(c, p): a Fixed PDO is written as a word to the channel's slot
\* register, any other variant is Err(Error::InvalidPdo)
set_pdo(c, p, R) ==
  /\ Call("set_pdo", "none", nvmBytes, data, 0, c, p)
  /\ IF p.type = "Fixed"
       THEN \E r \in R :
              LET bytes == write_word(PdoRegister(c), PdoBits(p)) IN
              /\ log' = <<WriteCall(bytes, r)>>
              /\ bus' = OnBus(<<WriteCall(bytes, r)>>)
              /\ regs' = IF r = "ok" THEN RegsWrite(regs, bytes) ELSE regs
              /\ ReturnAtOnce(IF r = "ok" THEN Ok("unit") ELSE I2CError(r))
       ELSE /\ log' = <<>>
            /\ UNCHANGED <<regs, bus>>
            /\ ReturnAtOnce(InvalidPdo)

\* GetPdoRegister with every channel read from the slot of PDO1.
GetPdoRegister_Pdo1Always(c) ==
  CASE c = "PDO1" -> "DPMSNKPDO1"
    [] c = "PDO2" -> "DPMSNKPDO1"
    [] c = "PDO3" -> "DPMSNKPDO1"

\* The slot register of a channel (the match of get_pdo).
GetPdoRegister(c) ==
  CASE c = "PDO1" -> "DPMSNKPDO1"
    [] c = "PDO2" -> "DPMSNKPDO2"
    [] c = "PDO3" -> "DPMSNKPDO3"

\* PdoOrInvalid with a default PDO in place of the error (unwrap_or).
PdoOrInvalid_DefaultOnNone(w) ==
  IF PdoFromBits(w) = {} THEN Ok(NoPdo)
  ELSE Ok(CHOOSE p \in PdoFromBits(w) : TRUE)

\* Pdo::from_bits(word).ok_or(Error::InvalidPdo)
PdoOrInvalid(w) ==
  IF PdoFromBits(w) = {} THEN InvalidPdo
  ELSE Ok(CHOOSE p \in PdoFromBits(w) : TRUE)

\* Ok(Alert::from_masked_bits(byte))
AlertOk(v) == Ok(BitAnd(v, AlertBits))

\* What the read operation o makes of the value w its primitive returned:
\* the decoded PDO, the masked alert bits, or Rdo(w).
ReadResult(o, w) ==
  CASE o = "get_pdo" -> PdoOrInvalid(w)
    [] o = "get_alerts" -> AlertOk(w)
    [] o = "get_current_rdo" -> Ok(w)

\* A read primitive of n bytes from register, as the one statement of the
\* operation o: a failed call returns the error, otherwise the operation
\* returns ReadResult(o, w) for the little-endian value w of the bytes read.
ReadStatement(o, c, register, n, R) ==
  /\ Call(o, "none", nvmBytes, data, 0, c, NoPdo)
  /\ \E r1, r2 \in R :
       LET got == regs[register]
           calls == ReadCalls(register, n, r1, r2, got)
           err == ReadError(r1, r2)
       IN /\ log' = calls
          /\ bus' = OnBus(calls)
          /\ regs' = IF err = "ok" THEN RegsRead(regs, register) ELSE regs
          /\ ReturnAtOnce(IF err # "ok" THEN I2CError(err)
                          ELSE ReadResult(o, from_le_bytes(got)))

\* get_pdo(c): read_word of the channel's slot register, decoded
get_pdo(c, R) ==
  /\ pc \in {"idle", "done"}
  /\ ReadStatement("get_pdo", c, GetPdoRegister(c), 4, R)

\* get_alerts answering from the value the previous get_alerts returned.
get_alerts_Cached(R) ==
  /\ pc \in {"idle", "done"}
  /\ IF op = "get_alerts" /\ result.kind = "Ok"
       THEN /\ Call("get_alerts", "none", nvmBytes, data, 0, "PDO1", NoPdo)
            /\ log' = <<>>
            /\ bus' = bus
            /\ regs' = regs
            /\ ReturnAtOnce(result)
       ELSE ReadStatement("get_alerts", "PDO1", "AlertStatus1", 1, R)

\* get_alerts: read of AlertStatus1
get_alerts(R) ==
  /\ pc \in {"idle", "done"}
  /\ ReadStatement("get_alerts", "PDO1", "AlertStatus1", 1, R)

\* get_current_rdo: Ok(Rdo(self.read_word(Register::RDORegStatus)?))
get_current_rdo(R) ==
  /\ pc \in {"idle", "done"}
  /\ ReadStatement("get_current_rdo", "PDO1", "RDORegStatus", 4, R)

\* soft_reset with the result of the first write dropped.
soft_reset_IgnoresFirstError(R) ==
  /\ Call("soft_reset", "none", nvmBytes, data, 0, "PDO1", NoPdo)
  /\ \E r1, r2 \in R :
       LET first == WriteCall(write("TXHeaderL", 13), r1)
           second == WriteCall(write("PDCommandCtrl", 38), r2)
       IN /\ log' = <<first, second>>
          /\ bus' = OnBus(<<first, second>>)
          /\ ReturnAtOnce(IF r2 # "ok" THEN I2CError(r2) ELSE Ok("unit"))
  /\ regs' = regs

\* soft_reset: self.write(TXHeaderL, 0x0D)?; self.write(PDCommandCtrl,
\* 0x26)?; Ok(())
soft_reset(R) ==
  /\ Call("soft_reset", "none", nvmBytes, data, 0, "PDO1", NoPdo)
  /\ \E r1, r2 \in R :
       LET first == WriteCall(write("TXHeaderL", 13), r1)
           second == WriteCall(write("PDCommandCtrl", 38), r2)
           calls == IF r1 # "ok" THEN <<first>> ELSE <<first, second>>
       IN /\ log' = calls
          /\ bus' = OnBus(calls)
          /\ ReturnAtOnce(IF r1 # "ok" THEN I2CError(r1)
                          ELSE IF r2 # "ok" THEN I2CError(r2)
                          ELSE Ok("unit"))
  /\ regs' = regs

(***************************************************************************)
(* The chip completes the command in progress, or raises alerts.           *)
(***************************************************************************)
\* The chip sets bits of its alert register while the driver is between
\* operations.
DeviceAlert ==
  /\ pc \in {"idle", "done"}
  /\ regs.AlertStatus1 = <<0>>
  /\ \E a \in AlertInputs \ {0} : regs' = [regs EXCEPT !.AlertStatus1 = <<a>>]
  /\ UNCHANGED <<address, dev, op, args, pc, caller, step, lock, x, buf,
                 result, log, polls, written, bus>>

DeviceComplete ==
  /\ Busy(dev)
  /\ dev' = DevComplete(dev)
  /\ UNCHANGED <<address, op, args, pc, caller, step, lock, x, buf, result,
                 log, polls, written, regs, bus>>

(***************************************************************************)
(* Specifications.                                                         *)
(***************************************************************************)
\* STUSB4500::new(i2c, a) for an address a, in front of a chip that is at
\* rest or still busy with a sector read an earlier program started.
InitFor(inputs) ==
  /\ address \in {addr(a) : a \in inputs}
  /\ \E n \in InitialNvm, c0 \in {0, CTRL0_Default} :
       dev = [password |-> PasswordLock, ctrl0 |-> c0, ctrl1 |-> NVMCmd_Read,
              rwbuf |-> to_le_bytes(0, 8), pl |-> to_le_bytes(0, 8),
              nvm |-> [i \in Sectors |-> to_le_bytes(n[i], 8)]]
  /\ op = "none"
  /\ wrapper = "none"
  /\ nvmBytes = ZeroBytes
  /\ data = ZeroImage
  /\ num = 0
  /\ chan = "PDO1"
  /\ pdo = NoPdo
  /\ pc = "idle"
  /\ caller = "none"
  /\ step = 1
  /\ lock = FALSE
  /\ x = 0
  /\ buf = ZeroImage
  /\ result = None
  /\ log = <<>>
  /\ polls = 0
  /\ written = "none"
  /\ regs = [DPMSNKPDO1 |-> to_le_bytes(102700, 4),
             DPMSNKPDO2 |-> <<78, 0, 0, 64>>,
             DPMSNKPDO3 |-> to_le_bytes(0, 4),
             AlertStatus1 |-> <<130>>,
             RDORegStatus |-> <<44, 177, 4, 16>>]
  /\ bus = {}

Init == InitFor(AddressInputs)

\* A step of the driver inside an NVM operation.
NvmStep(R) ==
  \/ set_nvm_lock(R)
  \/ nvm_wait(R)
  \/ delete_nvm(R)
  \/ write_nvm_sector(R)
  \/ read_nvm_sector(R)

\* A caller that got a transport error makes no further call (the example
\* program exits on any error).
CallerRuns == result.kind # "I2CError"

\* The NVM operations, with set_num_pdo between them.
Next ==
  \/ CallerRuns /\ get_nvm
  \/ CallerRuns /\ get_nvm_bytes
  \/ CallerRuns /\ \E d \in Images : write_nvm(d)
  \/ CallerRuns /\ \E b \in ByteImages : write_nvm_bytes(b)
  \/ CallerRuns /\ \E n \in NumPdoBoundary : set_num_pdo(n, Outcomes)
  \/ NvmStep(Outcomes)
  \/ DeviceComplete

\* The steps possible when the transport never fails.
NextOk ==
  \/ get_nvm
  \/ get_nvm_bytes
  \/ \E d \in Images : write_nvm(d)
  \/ \E b \in ByteImages : write_nvm_bytes(b)
  \/ \E n \in NumPdoBoundary : set_num_pdo(n, {"ok"})
  \/ NvmStep({"ok"})
  \/ DeviceComplete

Spec == Init /\ [][Next]_vars

\* set_num_pdo alone, with every u8.
PdoNext == \E n \in NumPdoInputs : set_num_pdo(n, Outcomes)

PdoSpec == Init /\ [][PdoNext]_vars

\* The operations on the registers outside the NVM block, called in any
\* order by a caller that goes on after an error.
RegNext ==
  \/ \E n \in NumPdoBoundary : set_num_pdo(n, Outcomes)
  \/ \E c \in PdoChannel, p \in PdoInputs : set_pdo(c, p, Outcomes)
  \/ \E c \in PdoChannel : get_pdo(c, Outcomes)
  \/ get_alerts(Outcomes)
  \/ get_current_rdo(Outcomes)
  \/ soft_reset(Outcomes)
  \/ DeviceAlert

\* new() in front of a chip whose NVM block is at rest.
RegInit == Init /\ ~Busy(dev) /\ dev.nvm = [i \in Sectors |-> to_le_bytes(0, 8)]

RegSpec == RegInit /\ [][RegNext]_vars

\* new() with an address of any kind, and operations that make transport
\* calls with it.
AddrInit ==
  /\ InitFor(AllAddressInputs)
  /\ ~Busy(dev)
  /\ dev.nvm = [i \in Sectors |-> to_le_bytes(0, 8)]

AddrNext ==
  \/ get_alerts(Outcomes)
  \/ soft_reset(Outcomes)
  \/ DeviceAlert

AddrSpec == AddrInit /\ [][AddrNext]_vars

\* write_nvm and get_nvm called again and again by a caller that goes on
\* after an error.
AbortNext ==
  \/ \E d \in {[i \in Sectors |-> 66051 + 1000 * i]} : write_nvm(d)
  \/ get_nvm
  \/ NvmStep(Outcomes)
  \/ DeviceComplete

AbortSpec == RegInit /\ [][AbortNext]_vars

\* Every read operation, and write_nvm to change what get_nvm reads, called
\* in any order by a caller that goes on after an error.
HistNext ==
  \/ \E d \in {[i \in Sectors |-> 66051 + 1000 * i]} : write_nvm(d)
  \/ get_nvm
  \/ get_alerts(Outcomes)
  \/ get_current_rdo(Outcomes)
  \/ \E c \in {"PDO2"} : get_pdo(c, Outcomes)
  \/ NvmStep(Outcomes)
  \/ DeviceComplete
  \/ DeviceAlert

HistSpec == RegInit /\ [][HistNext]_vars

\* One operation for each of the six register access primitives: write
\* (set_nvm_lock and the other helpers, soft_reset), write_word (set_pdo),
\* write_double_word (write_nvm_sector), read (nvm_wait, get_alerts),
\* read_word (get_pdo) and read_double_word (read_nvm_sector).
PrimNext ==
  \/ CallerRuns /\ get_nvm
  \/ CallerRuns /\ \E d \in {[i \in Sectors |-> 66051 + 1000 * i]} : write_nvm(d)
  \/ CallerRuns /\ \E c \in PdoChannel, p \in PdoInputs : set_pdo(c, p, Outcomes)
  \/ CallerRuns /\ \E c \in PdoChannel : get_pdo(c, Outcomes)
  \/ CallerRuns /\ get_alerts(Outcomes)
  \/ CallerRuns /\ soft_reset(Outcomes)
  \/ NvmStep(Outcomes)
  \/ DeviceComplete

PrimSpec == RegInit /\ [][PrimNext]_vars

\* A transport that never fails, a driver that runs on (the calls are
\* blocking and the program is sequential), and a chip that completes every
\* command it was asked for.
FairSpec ==
  /\ Init
  /\ [][NextOk]_vars
  /\ WF_vars(NvmStep({"ok"}))
  /\ WF_vars(DeviceComplete)

(***************************************************************************)
(* Reading the trace.                                                      *)
(***************************************************************************)
NvmOps == {"get_nvm", "write_nvm"}

\* The operation has returned.
Returned(o) == pc = "done" /\ op = o

\* A register write: a write call that carries a value after the register
\* byte (the address write of a read primitive carries the register only).
IsRegWrite(e) == e.call = "write" /\ e.len >= 2

\* The positions in log of register writes of value v to register r.
WritesOf(r, v) ==
  {i \in DOMAIN log : IsRegWrite(log[i]) /\ log[i].bytes = <<r, v>>}

\* The positions in log of all register writes.
RegWritePositions == {i \in DOMAIN log : IsRegWrite(log[i])}

\* The position in log of the last register write (0 if there is none).
LastRegWrite ==
  IF RegWritePositions = {} THEN 0
  ELSE CHOOSE i \in RegWritePositions : \A j \in RegWritePositions : j <= i

\* The calls made so far all succeeded.
AllOk == \A i \in DOMAIN log : log[i].res = "ok"

(***************************************************************************)
(* C1.  Claimed: whenever get_nvm or write_nvm has made the unlock write   *)
(* and a later step (before the lock step) fails with a transport error,   *)
(* the driver still makes the lock password write before it returns.       *)
(***************************************************************************)
C1_LockAttemptedOnFailure ==
  (/\ pc = "done"
   /\ op \in NvmOps
   /\ result.kind = "I2CError"
   /\ Len(log) >= 2
   /\ log[1].res = "ok")
  => WritesOf("Password", PasswordLock) # {}

\* C1 as amended: get_nvm and write_nvm make the lock password write only
\* when every earlier call of the operation succeeded; an operation that
\* returns Ok has made it as its last register write, and one that returns
\* a transport error from a step between the unlock and the lock has made
\* no lock write and leaves the unlock password in the Password register.
C1_LockOnlyWhenAllSucceeded ==
  op \in NvmOps =>
    /\ \A i \in WritesOf("Password", PasswordLock) :
         /\ \A j \in 1 .. (i - 1) : log[j].res = "ok"
         /\ i = LastRegWrite
    /\ (pc = "done" /\ result.kind = "Ok") =>
         /\ WritesOf("Password", PasswordLock) # {}
         /\ log[LastRegWrite].res = "ok"
         /\ dev.password = PasswordLock
    /\ (pc = "done" /\ result.kind = "I2CError" /\ lock = FALSE) =>
         /\ WritesOf("Password", PasswordLock) = {}
         /\ (log[1].res = "ok" => dev.password = PasswordUnlock)

\* write_nvm has failed in the middle of programming, after the unlock, and
\* returned without a lock write.
C1_Witness ==
  /\ Returned("write_nvm")
  /\ result.kind = "I2CError"
  /\ x = 2
  /\ log[1].res = "ok"
  /\ WritesOf("Password", PasswordLock) = {}
  /\ dev.password = PasswordUnlock

(***************************************************************************)
(* C2.  get_nvm and write_nvm abort at the first failing transport call:   *)
(* no transport call follows a failed one, the operation has returned, and *)
(* what it returned is that call's error as Error::I2CError.               *)
(***************************************************************************)
C2_AbortAtFirstFailure ==
  op \in NvmOps =>
    /\ \A i \in DOMAIN log :
         log[i].res # "ok" =>
           /\ i = Len(log)
           /\ pc = "done"
           /\ result = I2CError(log[i].res)
    /\ (pc = "done" /\ result.kind # "Ok") =>
         /\ log # <<>>
         /\ result = I2CError(log[Len(log)].res)
         /\ log[Len(log)].res \in TransportErrors
    /\ (pc = "done" /\ result.kind = "Ok") => AllOk

\* A poll read inside nvm_wait failed in the middle of write_nvm, after a
\* sector was programmed, and the operation returned that error.
C2_Witness ==
  /\ Returned("write_nvm")
  /\ x = 1
  /\ caller = "write_nvm_sector"
  /\ log[Len(log)].call = "read"
  /\ log[Len(log)].res = "ArbitrationLoss"
  /\ result = I2CError("ArbitrationLoss")

(***************************************************************************)
(* The trace an NVM operation is expected to leave, written out call by    *)
(* call.  The representation of a 64-bit word is restricted to values      *)
(* below 2^31, so its upper four bytes are 0.                              *)
(***************************************************************************)
\* The eight little-endian bytes of w, by place value.
ExpectedLe8(w) ==
  [k \in 1 .. 8 |-> IF k <= 4 THEN (w \div (256 ^ (k - 1))) % 256 ELSE 0]

\* A register write that succeeded.
ExpectedWrite(bytes) ==
  [call |-> "write", addr |-> address, bytes |-> bytes, len |-> Len(bytes),
   res |-> "ok"]

\* The poll that ends a wait: CTRL0 is addressed and one byte is read.
\* The byte's request bit is 0; Shape replaces the byte by that bit.
ExpectedIdlePoll ==
  <<ExpectedWrite(<<"CTRL0">>),
    [call |-> "read", addr |-> address, bytes |-> <<0>>, len |-> 1,
     res |-> "ok"]>>

\* A register write that triggers a command, and the poll that observes
\* the chip idle after it.
ExpectedTrigger(bytes) == <<ExpectedWrite(bytes)>> \o ExpectedIdlePoll

\* A call of the trace, with the byte a poll read replaced by its request
\* bit.
Shape(e) ==
  IF e.call = "read" /\ e.len = 1 /\ Len(e.bytes) = 1
    THEN [e EXCEPT !.bytes = <<BitAnd(e.bytes[1], CTRL0_REQ)>>]
    ELSE e

LogShape == [i \in DOMAIN log |-> Shape(log[i])]

ExpectedUnlock == ExpectedTrigger(<<"Password", PasswordUnlock>>)

ExpectedLock == ExpectedTrigger(<<"Password", PasswordLock>>)

\* The erase phase as the code performs it.
ExpectedErase ==
  <<ExpectedWrite(<<"CTRL1", DeleteSerCmd>>)>>
    \o ExpectedTrigger(<<"CTRL0", CTRL0_Default>>)
    \o <<ExpectedWrite(<<"CTRL1", NVMCmd_SoftProgSector>>)>>
    \o ExpectedTrigger(<<"CTRL0", CTRL0_Default>>)
    \o <<ExpectedWrite(<<"CTRL1", NVMCmd_EraseSector>>)>>
    \o ExpectedTrigger(<<"CTRL0", CTRL0_Default>>)

\* Programming sector i with word w.
ExpectedProgram(i, w) ==
  <<ExpectedWrite(<<"RWBuffer">> \o ExpectedLe8(w)),
    ExpectedWrite(<<"CTRL1", NVMCmd_WritePL>>)>>
    \o ExpectedTrigger(<<"CTRL0", CTRL0_Default>>)
    \o <<ExpectedWrite(<<"CTRL1", NVMCmd_ProgSector>>)>>
    \o ExpectedTrigger(<<"CTRL0", CTRL0_Default + i>>)

\* The positions in log of the Program-Sector triggers of sector i: a
\* CTRL0 write with sector-select i that follows a CTRL1 write of the
\* Program-Sector command.
ProgramTriggers(i) ==
  {k \in DOMAIN log :
     /\ k > 1
     /\ log[k].bytes = <<"CTRL0", CTRL0_Default + i>>
     /\ log[k - 1].bytes = <<"CTRL1", NVMCmd_ProgSector>>}

(***************************************************************************)
(* C3.  A write_nvm in which no transport call fails makes its register    *)
(* writes in this order: the unlock password; the erase phase; for sector  *)
(* 0, 1, 2, 3, 4 in turn the sector's value to RWBuffer, Write-Program-    *)
(* Load, and Program-Sector with that sector selected; the lock password   *)
(* last.  Every command trigger is followed by the poll that observes the  *)
(* chip idle before the next write, so no sector is programmed before the  *)
(* poll after Erase-Sector, and each sector is programmed exactly once.    *)
(***************************************************************************)
C3_WriteOrder ==
  (Returned("write_nvm") /\ result.kind = "Ok") =>
    /\ LogShape =
         ExpectedUnlock \o ExpectedErase
           \o ExpectedProgram(0, data[0]) \o ExpectedProgram(1, data[1])
           \o ExpectedProgram(2, data[2]) \o ExpectedProgram(3, data[3])
           \o ExpectedProgram(4, data[4]) \o ExpectedLock
    /\ \A i \in Sectors : Cardinality(ProgramTriggers(i)) = 1

\* write_nvm has returned Ok for the image whose five sectors all differ.
C3_Witness ==
  /\ Returned("write_nvm")
  /\ result.kind = "Ok"
  /\ data = [i \in Sectors |-> 66051 + 1000 * i]
  /\ Len(log) = 63

(***************************************************************************)
(* The erase phase of write_nvm: the calls between the poll that ends the  *)
(* unlock (the third call) and the first write to RWBuffer.                *)
(***************************************************************************)
RWBufferWrites ==
  {i \in DOMAIN log : IsRegWrite(log[i]) /\ log[i].bytes[1] = "RWBuffer"}

\* write_nvm has finished the erase phase and begun to program.
EraseDone == op = "write_nvm" /\ RWBufferWrites # {}

FirstRWBufferWrite ==
  CHOOSE i \in RWBufferWrites : \A j \in RWBufferWrites : i <= j

ErasePhase == SubSeq(LogShape, 4, FirstRWBufferWrite - 1)

IsCtrl1Write(e) == IsRegWrite(e) /\ e.bytes[1] = "CTRL1"

\* The values written to CTRL1 in the calls l, in order.
Ctrl1Values(l) ==
  LET w == SelectSeq(l, IsCtrl1Write) IN [i \in DOMAIN w |-> w[i].bytes[2]]

(***************************************************************************)
(* C4.  Claimed: in the erase phase of write_nvm exactly two commands are  *)
(* written to CTRL1, Soft-Program-Sector and then Erase-Sector, and no     *)
(* other value.                                                            *)
(***************************************************************************)
C4_TwoEraseCommands ==
  EraseDone =>
    Ctrl1Values(ErasePhase) = <<NVMCmd_SoftProgSector, NVMCmd_EraseSector>>

\* C4 as amended: in the erase phase of write_nvm exactly three values are
\* written to CTRL1, in this order: 0xFA (the opcode that loads the
\* sector-erase register, with all sectors selected), Soft-Program-Sector
\* and Erase-Sector; each is triggered once by a write of the default
\* command bits to CTRL0 and followed by a poll to idle, and the phase makes
\* no other call.
C4_ThreeEraseCommands ==
  EraseDone =>
    /\ Ctrl1Values(ErasePhase) =
         <<DeleteSerCmd, NVMCmd_SoftProgSector, NVMCmd_EraseSector>>
    /\ ErasePhase = ExpectedErase

\* write_nvm has finished the erase phase and written the first sector's
\* value to RWBuffer.
C4_Witness ==
  /\ EraseDone
  /\ pc = "write_nvm_sector"
  /\ x = 0
  /\ step = 2
  /\ Len(log) = 16

(***************************************************************************)
(* C5.  A get_nvm in which no transport call fails unlocks first; then for *)
(* sector 0, 1, 2, 3, 4 in turn writes the Read command to CTRL1, writes   *)
(* CTRL0 with the default command bits combined with that sector, polls to *)
(* idle and only then reads 8 bytes from RWBuffer; it locks after the      *)
(* fifth read; and element i of the image returned is the little-endian    *)
(* value of the 8 bytes read in iteration i.                               *)
(***************************************************************************)
\* The value of eight little-endian bytes whose upper four are 0, by place
\* value.
ExpectedLeValue(b) == b[1] + 256 * b[2] + 65536 * b[3] + 16777216 * b[4]

\* Reading sector i: the bytes the 8-byte read delivered are left out here
\* (DataShape), the values are compared separately.
ExpectedRead(i) ==
  <<ExpectedWrite(<<"CTRL1", NVMCmd_Read>>)>>
    \o ExpectedTrigger(<<"CTRL0", CTRL0_Default + i>>)
    \o <<ExpectedWrite(<<"RWBuffer">>),
         [call |-> "read", addr |-> address, bytes |-> <<>>, len |-> 8,
          res |-> "ok"]>>

DataShape(e) ==
  IF e.call = "read" /\ e.len = 8 THEN [e EXCEPT !.bytes = <<>>] ELSE Shape(e)

\* The position in get_nvm's trace of the 8-byte read of iteration i.
ReadPosition(i) == 9 + 6 * i

C5_ReadOrder ==
  (Returned("get_nvm") /\ result.kind = "Ok") =>
    /\ [k \in DOMAIN log |-> DataShape(log[k])] =
         ExpectedUnlock
           \o ExpectedRead(0) \o ExpectedRead(1) \o ExpectedRead(2)
           \o ExpectedRead(3) \o ExpectedRead(4) \o ExpectedLock
    /\ \A i \in Sectors :
         /\ Len(log[ReadPosition(i)].bytes) = 8
         /\ wrapper = "none" =>
              result.val[i] = ExpectedLeValue(log[ReadPosition(i)].bytes)

\* get_nvm has returned the chip's initial content 255, 256, .., 259.
C5_Witness ==
  /\ Returned("get_nvm")
  /\ wrapper = "none"
  /\ result.kind = "Ok"
  /\ result.val = [i \in Sectors |-> 255 + i]

(***************************************************************************)
(* C6.  Write-then-read round trip: in front of a chip that stores the     *)
(* staged RWBuffer value into sector s on Program-Sector and loads sector  *)
(* s into RWBuffer on Read, a write_nvm(x) or write_nvm_bytes(x) that      *)
(* returned Ok followed by a get_nvm or get_nvm_bytes that returns Ok      *)
(* gives back x (as sectors or as bytes), whatever the NVM held before.    *)
(***************************************************************************)
\* The image written last, as five words and as forty bytes.
WrittenWords ==
  IF written = "write_nvm" THEN data
  ELSE [i \in Sectors |->
          ExpectedLeValue(SubSeq(nvmBytes, 8 * i + 1, 8 * i + 8))]

WrittenBytes ==
  IF written = "write_nvm_bytes" THEN nvmBytes
  ELSE [k \in 1 .. 8 * NumSectors |->
          ExpectedLe8(data[(k - 1) \div 8])[((k - 1) % 8) + 1]]

C6_RoundTrip ==
  (Returned("get_nvm") /\ result.kind = "Ok" /\ written # "none") =>
    IF wrapper = "get_nvm_bytes"
      THEN result.val = WrittenBytes
      ELSE result.val = WrittenWords

\* get_nvm has returned Ok after a write_nvm of the image whose five
\* sectors all differ returned Ok.
C6_Witness ==
  /\ Returned("get_nvm")
  /\ wrapper = "none"
  /\ result.kind = "Ok"
  /\ written = "write_nvm"
  /\ data = [i \in Sectors |-> 66051 + 1000 * i]

(***************************************************************************)
(* C7.  nvm_wait is an unbounded busy-poll.  Every step of the driver      *)
(* inside nvm_wait is one poll, a read of CTRL0 (the address write and a   *)
(* 1-byte read), and nothing else.  A poll that finds the request bit set  *)
(* leaves the driver in nvm_wait, whatever the number of polls before it;  *)
(* the first poll that finds it clear returns Ok to the caller, after as   *)
(* many busy polls as the chip answered; only a failed call ends the wait  *)
(* otherwise.                                                              *)
(***************************************************************************)
C7_PollStep ==
  (pc = "nvm_wait" /\ dev' = dev) =>
    \/ UNCHANGED vars
    \/ /\ Busy(dev)
       /\ polls < MaxPolls
       /\ polls' = polls + 1
       /\ pc' = "nvm_wait"
       /\ log' = log
       /\ result' = None
    \/ /\ ~Busy(dev)
       /\ pc' \notin {"nvm_wait", "done"} \/ (pc' = "done" /\ result'.kind = "Ok")
       /\ log' = log \o <<ExpectedWrite(<<"CTRL0">>),
                          [call |-> "read", addr |-> address,
                           bytes |-> <<dev.ctrl0>>, len |-> 1, res |-> "ok"]>>
    \/ /\ pc' = "done"
       /\ result'.kind = "I2CError"
       /\ \E e \in TransportErrors :
            /\ result' = I2CError(e)
            /\ \/ log' = log \o <<[ExpectedWrite(<<"CTRL0">>) EXCEPT !.res = e]>>
               \/ log' = log \o <<ExpectedWrite(<<"CTRL0">>),
                                  [call |-> "read", addr |-> address,
                                   bytes |-> <<>>, len |-> 1, res |-> e]>>

C7_NvmWaitPolls == [][C7_PollStep]_vars

\* The chip answered two polls of a wait inside write_nvm_sector busy and
\* is idle now: the third poll will end the wait.
C7_Witness ==
  /\ pc = "nvm_wait"
  /\ caller = "write_nvm_sector"
  /\ polls = 2
  /\ ~Busy(dev)

(***************************************************************************)
(* C8.  Termination in front of a responsive chip: when the transport      *)
(* never fails and the chip completes every command, every call of get_nvm *)
(* and of write_nvm eventually returns Ok, with the lock password write as *)
(* its last register write.                                                *)
(***************************************************************************)
NvmRunning == op \in NvmOps /\ pc \notin {"idle", "done"}

NvmReturnedOkLocked ==
  /\ op \in NvmOps
  /\ pc = "done"
  /\ result.kind = "Ok"
  /\ LastRegWrite \in WritesOf("Password", PasswordLock)

C8_Terminates == NvmRunning ~> NvmReturnedOkLocked

\* write_nvm_bytes has returned Ok in front of the responsive chip.
C8_Witness ==
  /\ Returned("write_nvm")
  /\ wrapper = "write_nvm_bytes"
  /\ NvmReturnedOkLocked

(***************************************************************************)
(* C9.  For every 8-bit count n, set_num_pdo(n) fails with the out-of-     *)
(* range error and makes no transport call when n is 0 or n >= 4; for n in *)
(* 1..=3 it makes exactly one transport call, a write of [DPMPDONumb, n],  *)
(* and succeeds when that write succeeds.                                  *)
(***************************************************************************)
C9_SetNumPdo ==
  Returned("set_num_pdo") =>
    IF num = 0 \/ num >= 4
      THEN result = OutaRangePdo /\ log = <<>>
      ELSE /\ Len(log) = 1
           /\ log[1].call = "write"
           /\ log[1].addr = address
           /\ log[1].bytes = <<"DPMPDONumb", num>>
           /\ IF log[1].res = "ok"
                THEN result.kind = "Ok"
                ELSE result = I2CError(log[1].res)

\* set_num_pdo(3) has made its one write, which succeeded.
C9_Witness ==
  /\ Returned("set_num_pdo")
  /\ num = 3
  /\ result.kind = "Ok"
  /\ Len(log) = 1

(***************************************************************************)
(* C10.  set_pdo with a PDO that is not Fixed returns the invalid-PDO      *)
(* error and makes no transport call, for every channel; with a Fixed PDO  *)
(* it makes exactly one transport call, a write to the slot register of    *)
(* the channel asked for and to no other slot.                             *)
(***************************************************************************)
C10_SetPdo ==
  Returned("set_pdo") =>
    IF pdo.type # "Fixed"
      THEN result = InvalidPdo /\ log = <<>>
      ELSE /\ Len(log) = 1
           /\ log[1].call = "write"
           /\ log[1].len = 5
           /\ (chan = "PDO1" => log[1].bytes[1] = "DPMSNKPDO1")
           /\ (chan = "PDO2" => log[1].bytes[1] = "DPMSNKPDO2")
           /\ (chan = "PDO3" => log[1].bytes[1] = "DPMSNKPDO3")
           /\ result.kind \in {"Ok", "I2CError"}

\* set_pdo has written a Fixed PDO to the slot of channel PDO3.
C10_Witness ==
  /\ Returned("set_pdo")
  /\ chan = "PDO3"
  /\ pdo.type = "Fixed"
  /\ result.kind = "Ok"
  /\ Len(log) = 1

(***************************************************************************)
(* C11.  The byte form of the NVM image is a bijection with a fixed        *)
(* layout.  Bytes 8i .. 8i+7 of the buffer are sector i, least significant *)
(* byte first: write_nvm_bytes hands write_nvm the words so formed and     *)
(* stages exactly those bytes for sector i; get_nvm_bytes returns for      *)
(* sector i exactly the bytes get_nvm read for it.  Bytes to sectors and   *)
(* back gives the bytes, sectors to bytes and back gives the sectors, and  *)
(* nothing else is added around write_nvm and get_nvm.                     *)
(***************************************************************************)
\* The bytes of sector i in a 40-byte buffer.
SectorBytes(b, i) == SubSeq(b, 8 * i + 1, 8 * i + 8)

\* The position in write_nvm's trace of the RWBuffer write of sector i.
WritePosition(i) == 16 + 9 * i

C11_ByteCodec ==
  /\ (op = "write_nvm" /\ wrapper = "write_nvm_bytes") =>
       /\ \A i \in Sectors :
            /\ data[i] = ExpectedLeValue(SectorBytes(nvmBytes, i))
            /\ Len(log) >= WritePosition(i) =>
                 log[WritePosition(i)].bytes =
                   <<"RWBuffer">> \o SectorBytes(nvmBytes, i)
       /\ NvmToBytes(data) = nvmBytes
  /\ (op = "write_nvm" /\ wrapper = "none") =>
       /\ \A i \in Sectors :
            SectorBytes(NvmToBytes(data), i) = ExpectedLe8(data[i])
       /\ BytesToNvm(NvmToBytes(data)) = data
  /\ (Returned("get_nvm") /\ wrapper = "get_nvm_bytes"
        /\ result.kind = "Ok") =>
       /\ Len(result.val) = 8 * NumSectors
       /\ \A i \in Sectors :
            SectorBytes(result.val, i) = log[ReadPosition(i)].bytes
       /\ BytesToNvm(result.val) = buf
       /\ Len(log) = ReadPosition(NumSectors - 1) + 3

\* get_nvm_bytes has returned the 40 bytes that write_nvm_bytes wrote
\* before it.
C11_Witness ==
  /\ Returned("get_nvm")
  /\ wrapper = "get_nvm_bytes"
  /\ result.kind = "Ok"
  /\ written = "write_nvm_bytes"
  /\ nvmBytes = [k \in 1 .. 8 * NumSectors |-> IF (k - 1) % 8 < 3 THEN k ELSE 0]
  /\ result.val = nvmBytes

(***************************************************************************)
(* C12.  Every register access primitive makes one or two transport calls  *)
(* and never retries.  A write primitive is one transport write of the     *)
(* register byte followed by the value's 1, 4 or 8 bytes, least            *)
(* significant first.  A read primitive is one transport write of the      *)
(* register byte alone and then one separate transport read of 1, 4 or 8   *)
(* bytes; the read is not made when the address write failed.  A call that *)
(* failed is the last call made, and the operation returns its error as    *)
(* Error::I2CError.                                                        *)
(***************************************************************************)
\* The four little-endian bytes of a word, by place value.
ExpectedLe4(w) ==
  <<w % 256, (w \div 256) % 256, (w \div 65536) % 256, w \div 16777216>>

\* The call at position i of the trace belongs to a primitive as described.
PrimitiveCall(i) ==
  LET e == log[i] IN
  /\ e.call \in {"write", "read"}
  /\ e.addr = address
  /\ e.call = "write" =>
       /\ e.len \in {1, 2, 5, 9}
       /\ Len(e.bytes) = e.len
       /\ e.bytes[1] \in Register
       /\ \A k \in 2 .. e.len : e.bytes[k] \in 0 .. 255
       /\ (e.len = 1 /\ e.res = "ok") =>
            (i < Len(log) /\ log[i + 1].call = "read")
  /\ e.call = "read" =>
       /\ e.len \in {1, 4, 8}
       /\ i > 1
       /\ log[i - 1].call = "write"
       /\ log[i - 1].len = 1
       /\ log[i - 1].res = "ok"
       /\ e.res = "ok" => Len(e.bytes) = e.len
  /\ e.res # "ok" =>
       /\ i = Len(log)
       /\ pc = "done"
       /\ result = I2CError(e.res)

C12_Primitives ==
  /\ \A i \in DOMAIN log : PrimitiveCall(i)
  /\ (pc = "done" /\ result.kind = "I2CError") =>
       (log # <<>> /\ log[Len(log)].res = result.val)
  /\ (Returned("set_pdo") /\ pdo.type = "Fixed") =>
       Tail(log[1].bytes) = ExpectedLe4(PdoBits(pdo))
  /\ (Returned("get_pdo") /\ result.kind = "Ok") =>
       ExpectedLe4(PdoBits(result.val)) = log[2].bytes
  /\ (Returned("get_alerts") /\ result.kind = "Ok") =>
       (Len(log) = 2 /\ log[2].len = 1)

\* get_pdo's address write failed: no read was made, and the error is
\* what get_pdo returned.
C12_Witness ==
  /\ Returned("get_pdo")
  /\ Len(log) = 1
  /\ log[1].bytes = <<"DPMSNKPDO2">>
  /\ log[1].res = "Nack"
  /\ result = I2CError("Nack")

(***************************************************************************)
(* C13.  PDO codec round trip.  Decoding the word that encoding a Fixed    *)
(* PDO gives yields the PDO's voltage, current and flags again, for fields *)
(* within their ten bits.  In front of a chip that stores the word written *)
(* to a slot register, a set_pdo(c, p) that returned Ok leaves in the slot *)
(* of c a word that decodes to p, get_pdo(c) returns the decoding of what  *)
(* the slot of c holds, and a get_pdo(c) that follows a set_pdo(c, p)      *)
(* returns p.                                                              *)
(***************************************************************************)
\* Field values at and around the ends of the ten-bit range.
PdoFieldSamples == {0, 1, 300, 512, 1023}

FixedPdo(v, c, f) ==
  [type |-> "Fixed", voltage |-> v, current |-> c, flags |-> f]

\* The slot register of channel c, written out.
SlotOf(c) ==
  IF c = "PDO1" THEN "DPMSNKPDO1"
  ELSE IF c = "PDO2" THEN "DPMSNKPDO2"
  ELSE "DPMSNKPDO3"

C13_Codec ==
  \A v, c, f \in PdoFieldSamples :
    PdoFromBits(PdoBits(FixedPdo(v, c, f))) = {FixedPdo(v, c, f)}

C13_Stored ==
  /\ (Returned("set_pdo") /\ result.kind = "Ok") =>
       PdoFromBits(ExpectedLeValue(regs[SlotOf(chan)])) = {pdo}
  /\ (Returned("get_pdo") /\ result.kind = "Ok") =>
       PdoFromBits(ExpectedLeValue(regs[SlotOf(chan)])) = {result.val}

\* A get_pdo of the channel that the set_pdo before it wrote.
C13_Step ==
  (/\ Returned("set_pdo")
   /\ result.kind = "Ok"
   /\ op' = "get_pdo"
   /\ chan' = chan
   /\ result'.kind # "I2CError") => result' = Ok(pdo)

C13_RoundTrip == [](C13_Codec /\ C13_Stored) /\ [][C13_Step]_vars

\* get_pdo(PDO2) has returned the PDO with every field at its maximum: the
\* slot held a Battery word before set_pdo wrote it.
C13_Witness ==
  /\ Returned("get_pdo")
  /\ chan = "PDO2"
  /\ result = Ok(FixedPdo(1023, 1023, 1023))

(***************************************************************************)
(* C14.  get_pdo reads exactly the 4-byte slot register of the channel     *)
(* asked for.  When a transport call fails it returns that error as        *)
(* Error::I2CError, not the invalid-PDO error.  When the word read has a   *)
(* type selector other than Fixed it returns Error::InvalidPdo.  Otherwise *)
(* it returns the Fixed PDO whose fields are the fields of the word read,  *)
(* with no bit of the word dropped.                                        *)
(***************************************************************************)
C14_GetPdo ==
  Returned("get_pdo") =>
    /\ Len(log) \in {1, 2}
    /\ log[1] = [call |-> "write", addr |-> address,
                 bytes |-> <<SlotOf(chan)>>, len |-> 1, res |-> log[1].res]
    /\ log[1].res # "ok" => (Len(log) = 1 /\ result = I2CError(log[1].res))
    /\ log[1].res = "ok" =>
         /\ Len(log) = 2
         /\ log[2].call = "read"
         /\ log[2].addr = address
         /\ log[2].len = 4
         /\ log[2].res # "ok" => result = I2CError(log[2].res)
         /\ log[2].res = "ok" =>
              LET b == log[2].bytes
                  w == ExpectedLeValue(b)
              IN /\ Len(b) = 4
                 /\ IF b[4] \div 64 # 0
                      THEN result = InvalidPdo
                      ELSE /\ result.kind = "Ok"
                           /\ result.val.type = "Fixed"
                           /\ result.val.current = w % 1024
                           /\ result.val.voltage = (w \div 1024) % 1024
                           /\ result.val.flags = w \div 1048576
                           /\ PdoBits(result.val) = w

\* get_pdo(PDO2) has read the Battery word the slot holds and returned
\* the invalid-PDO error.
C14_Witness ==
  /\ Returned("get_pdo")
  /\ chan = "PDO2"
  /\ Len(log) = 2
  /\ log[2].bytes = <<78, 0, 0, 64>>
  /\ result = InvalidPdo

(***************************************************************************)
(* C15.  Claimed: the device address the driver uses is a valid 7-bit bus  *)
(* address (at most 0x7F) however the driver was constructed: from the     *)
(* default, from any strap-pin combination, or from a custom value.        *)
(***************************************************************************)
C15_SevenBitAddress == address <= 127 /\ \A a \in bus : a <= 127

(***************************************************************************)
(* C16.  The device address is fixed at construction: no step of any       *)
(* operation, successful or failed, changes the stored address, and every  *)
(* transport write and read made so far, busy polls included, carried it.  *)
(***************************************************************************)
C16_AddressFixed ==
  /\ [](/\ bus \subseteq {address}
        /\ \A i \in DOMAIN log : log[i].addr = address)
  /\ [][address' = address]_vars

\* A write_nvm of the driver constructed with Strap(true, false) has
\* failed after busy polls and calls that succeeded.
C16_Witness ==
  /\ Returned("write_nvm")
  /\ result.kind = "I2CError"
  /\ address = 42
  /\ bus = {42}
  /\ Len(log) > 20

(***************************************************************************)
(* C17.  A write_nvm that stops leaves partial progress in the shape of a  *)
(* prefix.  Once the erase phase is over, the sectors for which a          *)
(* Program-Sector command has been triggered are 0 .. k-1 for some k in    *)
(* 0 .. 5; each was triggered once, with its own value data[i] staged in   *)
(* RWBuffer before; the chip holds for every sector either the erased      *)
(* value or data[i].  Nothing resumes a write_nvm that returned: the       *)
(* driver takes no further step of it, and the next call starts again from *)
(* the unlock with sector 0.                                               *)
(***************************************************************************)
\* The sectors for which Program-Sector has been triggered.
Triggered == {i \in Sectors : ProgramTriggers(i) # {}}

C17_Prefix ==
  (op = "write_nvm" /\ EraseDone) =>
    /\ \E k \in 0 .. NumSectors : Triggered = 0 .. (k - 1)
    /\ \A i \in Sectors :
         /\ Cardinality(ProgramTriggers(i)) <= 1
         /\ \A t \in ProgramTriggers(i) :
              /\ t > 6
              /\ log[t - 6] = ExpectedWrite(<<"RWBuffer">> \o ExpectedLe8(data[i]))
              /\ \A j \in (t - 5) .. t : j \notin RWBufferWrites
         /\ dev.nvm[i] \in {ExpectedLe8(0), ExpectedLe8(data[i])}
         /\ i \notin Triggered => dev.nvm[i] = ExpectedLe8(0)

C17_NoResume ==
  Returned("write_nvm") =>
    \/ UNCHANGED <<pc, step, x, lock, log, result>>
    \/ /\ pc' = "set_nvm_lock"
       /\ step' = 1
       /\ x' = 0
       /\ lock' = FALSE
       /\ log' = <<>>

C17_PrefixProgress == []C17_Prefix /\ [][C17_NoResume]_vars

\* write_nvm has stopped with a transport error in the middle of sector
\* 3: sectors 0, 1 and 2 are programmed, 3 and 4 are erased.
C17_Witness ==
  /\ Returned("write_nvm")
  /\ result.kind = "I2CError"
  /\ Triggered = {0, 1, 2}
  /\ x = 3
  /\ \A i \in {0, 1, 2} : dev.nvm[i] = ExpectedLe8(data[i])
  /\ \A i \in {3, 4} : dev.nvm[i] = ExpectedLe8(0)

(***************************************************************************)
(* C18.  The driver never touches the NVM registers while a command is     *)
(* busy.  In get_nvm and write_nvm every write that triggers a command (a  *)
(* write to CTRL0 or to Password) is followed by polls of CTRL0 and        *)
(* nothing else until a poll has read the request bit clear: the next call *)
(* of the trace after a trigger is the poll that found the chip idle, or   *)
(* the poll that failed and ended the operation.  When a helper is about   *)
(* to make a write or the RWBuffer read after such a poll, the chip is     *)
(* idle.                                                                   *)
(***************************************************************************)
\* A write that reached the chip and triggers a command.
IsTrigger(e) ==
  /\ IsRegWrite(e)
  /\ e.bytes[1] \in {"CTRL0", "Password"}
  /\ e.res = "ok"

NvmHelpers ==
  {"set_nvm_lock", "delete_nvm", "write_nvm_sector", "read_nvm_sector"}

C18_IdleBeforeNextAccess ==
  op \in NvmOps =>
    /\ \A i \in DOMAIN log :
         IsTrigger(log[i]) =>
           /\ i = Len(log) => pc = "nvm_wait"
           /\ i + 1 <= Len(log) =>
                /\ log[i + 1].call = "write"
                /\ log[i + 1].bytes = <<"CTRL0">>
                /\ (i + 1 = Len(log)) => (pc = "done" /\ log[i + 1].res # "ok")
           /\ i + 2 <= Len(log) =>
                /\ log[i + 2].call = "read"
                /\ log[i + 2].len = 1
                /\ log[i + 2].res = "ok" =>
                     BitAnd(log[i + 2].bytes[1], CTRL0_REQ) = 0
                /\ (i + 2 < Len(log)) => log[i + 2].res = "ok"
    /\ (pc \in NvmHelpers /\ log # <<>>) => ~Busy(dev)

\* delete_nvm has triggered a command and the driver has polled the busy
\* chip twice.
C18_Witness ==
  /\ op = "write_nvm"
  /\ pc = "nvm_wait"
  /\ caller = "delete_nvm"
  /\ step = 4
  /\ polls = 2
  /\ Busy(dev)
  /\ IsTrigger(log[Len(log)])

(***************************************************************************)
(* C19.  soft_reset is fire-and-forget: it makes two transport writes,     *)
(* 0x0D to TXHeaderL and then 0x26 to PDCommandCtrl, and no transport      *)
(* read; when the first write fails the second is not made and the error   *)
(* is returned.                                                            *)
(***************************************************************************)
C19_SoftReset ==
  Returned("soft_reset") =>
    /\ Len(log) \in {1, 2}
    /\ \A i \in DOMAIN log : log[i].call = "write" /\ log[i].addr = address
    /\ log[1].bytes = <<"TXHeaderL", 13>>
    /\ IF log[1].res # "ok"
         THEN Len(log) = 1 /\ result = I2CError(log[1].res)
         ELSE /\ Len(log) = 2
              /\ log[2].bytes = <<"PDCommandCtrl", 38>>
              /\ result = IF log[2].res = "ok" THEN Ok("unit")
                          ELSE I2CError(log[2].res)

\* soft_reset has made its two writes and returned Ok.
C19_Witness ==
  /\ Returned("soft_reset")
  /\ Len(log) = 2
  /\ log[2].res = "ok"
  /\ result = Ok("unit")

(***************************************************************************)
(* C20.  The driver keeps no data between calls: every operation starts    *)
(* from scratch, and get_alerts, get_pdo, get_current_rdo and get_nvm      *)
(* fetch what they return from the device in the call itself, never from   *)
(* an earlier call.  The statement compares two histories; it is checked   *)
(* in the form that implies it: at every call, whatever ran before         *)
(* (failed and aborted NVM sequences included), the transport trace and    *)
(* the result are the fixed function of the operation, its arguments, the  *)
(* address, the device's content and the transport's responses.            *)
(***************************************************************************)
SimpleReads == {"get_alerts", "get_pdo", "get_current_rdo"}

\* The register a one-statement read operation reads.
ReadRegister(o, c) ==
  CASE o = "get_alerts" -> "AlertStatus1"
    [] o = "get_current_rdo" -> "RDORegStatus"
    [] o = "get_pdo" -> GetPdoRegister(c)

\* What the operation returns for the value w read.
ReadValue(o, w) ==
  CASE o = "get_alerts" -> AlertOk(w)
    [] o = "get_current_rdo" -> Ok(w)
    [] o = "get_pdo" -> PdoOrInvalid(w)

\* What a read operation has returned is the value of the bytes the read
\* call of this call brought.
C20_Fresh ==
  /\ \A o \in SimpleReads :
       (Returned(o) /\ result.kind # "I2CError") =>
         /\ Len(log) = 2
         /\ log[1] = ExpectedWrite(<<ReadRegister(o, chan)>>)
         /\ log[2].call = "read"
         /\ log[2].res = "ok"
         /\ result = ReadValue(o, from_le_bytes(log[2].bytes))
  /\ (Returned("get_nvm") /\ result.kind = "Ok") =>
       \A i \in Sectors :
         /\ log[ReadPosition(i)].call = "read"
         /\ log[ReadPosition(i)].bytes = dev.nvm[i]
         /\ result.val[i] = from_le_bytes(dev.nvm[i])

\* The call of a one-statement read operation (a step that is not the
\* chip's: it neither changes the NVM block nor raises an alert): the bytes
\* read are the register's content at the call, and the result is their
\* value.
C20_Call ==
  ( /\ pc \in {"idle", "done"}
    /\ pc' = "done"
    /\ op' \in SimpleReads
    /\ dev' = dev
    /\ ~(regs.AlertStatus1 = <<0>> /\ regs'.AlertStatus1 # <<0>>) ) =>
    LET register == ReadRegister(op', chan')
    IN /\ Len(log') \in {1, 2}
       /\ log'[1].call = "write"
       /\ log'[1].addr = address
       /\ log'[1].bytes = <<register>>
       /\ Len(log') = 1 <=> log'[1].res # "ok"
       /\ IF Len(log') = 2 /\ log'[2].res = "ok"
            THEN /\ log'[2].call = "read"
                 /\ log'[2].bytes = regs[register]
                 /\ result' = ReadValue(op', from_le_bytes(regs[register]))
            ELSE result' = I2CError(log'[Len(log')].res)

\* The call of get_nvm or write_nvm: the sequence starts at its first
\* statement with an empty trace and, for get_nvm, a zeroed buf.
C20_Start ==
  (pc \in {"idle", "done"} /\ pc' \notin {"idle", "done"}) =>
    /\ pc' = "set_nvm_lock"
    /\ step' = 1
    /\ x' = 0
    /\ lock' = FALSE
    /\ log' = <<>>
    /\ polls' = 0
    /\ result' = None
    /\ op' = "get_nvm" => buf' = ZeroImage

C20_NoCache == []C20_Fresh /\ [][C20_Call /\ C20_Start]_vars

\* get_alerts has returned the alert bits the chip held, after a write_nvm
\* that was aborted with sector 0 programmed and sector 4 still erased.
C20_Witness ==
  /\ Returned("get_alerts")
  /\ result = Ok(130)
  /\ regs.AlertStatus1 = <<0>>
  /\ dev.nvm[0] = ExpectedLe8(66051)
  /\ dev.nvm[4] = ExpectedLe8(0)

=============================================================================
